---- MODULE Spec2Model ----
(***************************************************************************)
(* A model of src/encrypt.py: the SaltPack encryption-mode encoder         *)
(* (encrypt) and decoder (decrypt), with NaCl's boxes as symbolic terms    *)
(* and MessagePack's stream as a sequence of framed values.                *)
(*                                                                         *)
(* Bytes produced by XSalsa20-Poly1305 are terms: a box is the pair of its *)
(* Poly1305 authenticator (the first 16 bytes) and its XSalsa20 cipher     *)
(* text (the rest).  The authenticator is a function of cipher text, nonce *)
(* and key; the cipher text of a non-empty message is a function of the    *)
(* message, nonce and key, and the cipher text of the empty message is the *)
(* empty string whatever the nonce and the key.                            *)
(***************************************************************************)
EXTENDS Integers, Sequences, FiniteSets, TLC

\* ------------------------------------------------------------- bounds
\* Longest plaintext; the plaintexts are <<>>, <<1>>, <<1, 2>>, ...
MaxLen == 2
\* Most recipients of one message.
MaxRecipients == 2
\* Largest chunk size tried on the longer plaintexts of SpecEncrypt.
MaxChunkSize == 12

\* Long-term private keys (32-byte scalars, named by small numbers).
PrivKeys == {1, 2, 3}
\* Private keys of the callers of encrypt.
SenderKeys == {1, 2}
\* Values os.urandom(32) may return; two calls never return the same.
Random32 == {11, 12}

Range(s) == {s[i] : i \in 1..Len(s)}
SeqsUpTo(S, n) == UNION {[1..k -> S] : k \in 0..n}
Min(a, b) == IF a <= b THEN a ELSE b
Max(a, b) == IF a <= b THEN b ELSE a

\* ------------------------------------------------------------- primitives
\* nacl.bindings.crypto_scalarmult_base: the public key of a private key.
crypto_scalarmult_base(sk) == <<"pk", sk>>

\* nacl.bindings.crypto_box_beforenm: the shared secret of a public and a
\* private key, the same for (pk(a), b) and (pk(b), a).
crypto_box_beforenm(pk, sk) == <<"dh", Min(pk[2], sk), Max(pk[2], sk)>>

\* A raw 32-byte symmetric key, as crypto_secretbox takes it.
RawKey(key) == <<"raw", key, key>>

\* XSalsa20: the cipher text is as long as the message.
XSalsa20(m, n, k) ==
    [len  |-> Len(m),
     of   |-> IF Len(m) = 0 THEN <<>> ELSE <<m, n, k>>,
     flip |-> 0]

\* Poly1305 over the cipher text, keyed by nonce and key.
Poly1305(ct, n, k) == [mac |-> ct, nonce |-> n, key |-> k]

\* The deciphered cipher text: the message under the nonce and key it was
\* enciphered with, as many bytes of noise under any other.
Decipher(ct, n, k) ==
    IF ct.len = 0 THEN <<>>
    ELSE IF ct.flip = 0 /\ ct.of[2] = n /\ ct.of[3] = k THEN ct.of[1]
    ELSE [i \in 1..ct.len |-> [noise |-> TRUE]]

\* crypto_secretbox / crypto_box_afternm under the key k: authenticator
\* (bytes [:16]) and cipher text (bytes [16:]).
Seal(m, n, k) == [tag |-> Poly1305(XSalsa20(m, n, k), n, k), ct |-> XSalsa20(m, n, k)]

\* crypto_secretbox_open / crypto_box_open_afternm raise CryptoError unless
\* the authenticator verifies.
OpenOK(box, n, k) == box.tag = Poly1305(box.ct, n, k)
Open(box, n, k) == Decipher(box.ct, n, k)

crypto_box(m, n, pk, sk) == Seal(m, n, crypto_box_beforenm(pk, sk))
crypto_box_afternm(m, n, k) == Seal(m, n, k)
crypto_secretbox(m, n, key) == Seal(m, n, RawKey(key))

\* A counter that loses its argument.
counter_stuck(i) == <<"u64be", 0>>

\* counter(i): the 64-bit big-endian form of i, one string of 8 bytes for
\* each i below 2^64 (to_bytes raises beyond; no run comes near it).
counter(i) == <<"u64be", i>>

\* sha512("SaltPack\0encryption nonce prefix\0" + ephemeral_public)[:16]
nonce_prefix_of(ephemeral_public) == <<"sha512", ephemeral_public>>

\* nonce_prefix + counter(i)
Nonce(prefix, i) == <<prefix, counter(i)>>

\* umsgpack.packb: one framed value; umsgpack.unpackb: the value of it.
packb(obj) == <<obj>>
unpackb(bytes) == bytes[1]

\* ------------------------------------------------------------- state
VARIABLES
    \* encrypt's arguments
    sender_private, recipient_public_keys, message, chunk_size,
    \* encrypt's locals
    epc, ephemeral_private, encryption_key, chunk_start, chunks, output,
    \* what was done to encrypt's output on its way to decrypt
    tamper,
    \* decrypt's arguments
    input, recipient_private,
    \* decrypt's locals: stream is input read up to pos
    dpc, pos, recipient_index, keys, packetnum, plaintext, error

evars == <<sender_private, recipient_public_keys, message, chunk_size,
           epc, ephemeral_private, encryption_key, chunk_start, chunks, output>>
dvars == <<tamper, input, recipient_private,
           dpc, pos, recipient_index, keys, packetnum, plaintext, error>>
vars == <<evars, dvars>>

PubKeys == {crypto_scalarmult_base(sk) : sk \in PrivKeys}
Messages == {[i \in 1..n |-> i] : n \in 0..MaxLen}
ChunkSizes == 0..MaxLen

Untouched == [kind |-> "none", i |-> 0, j |-> 0]

Init ==
    /\ sender_private \in SenderKeys
    /\ recipient_public_keys \in SeqsUpTo(PubKeys, MaxRecipients)
    /\ message \in Messages
    /\ chunk_size \in ChunkSizes
    /\ epc = "start"
    /\ ephemeral_private = 0
    /\ encryption_key = 0
    /\ chunk_start = 0
    /\ chunks = <<>>
    /\ output = <<>>
    /\ tamper = Untouched
    /\ input = <<>>
    /\ recipient_private = 0
    /\ dpc = "idle"
    /\ pos = 0
    /\ recipient_index = 0
    /\ keys = <<>>
    /\ packetnum = 2
    /\ plaintext = <<>>
    /\ error = "none"

\* ------------------------------------------------------------- encrypt
sender_public == crypto_scalarmult_base(sender_private)
ephemeral_public == crypto_scalarmult_base(ephemeral_private)
nonce_prefix == nonce_prefix_of(ephemeral_public)

\* The recipient box of one recipient (lines 102-108).
RecipientPair(recipient_public, eph_private, enc_key) ==
    <<"None",
      crypto_box(packb(<<sender_public, enc_key>>),
                 Nonce(nonce_prefix_of(crypto_scalarmult_base(eph_private)), 0),
                 recipient_public, eph_private)>>

\* recipient_beforenms: the shared secret of the sender and each recipient.
recipient_beforenms ==
    [pk \in Range(recipient_public_keys) |-> crypto_box_beforenm(pk, sender_private)]

\* Lines 82-125: the keys of the message and the header.
EncryptHeader ==
    /\ epc = "start"
    /\ \E eph \in Random32 : \E key \in Random32 \ {eph} :
        /\ ephemeral_private' = eph
        /\ encryption_key' = key
        /\ output' = packb(<<"SaltBox", <<1, 0>>, 0, crypto_scalarmult_base(eph),
                             [i \in 1..Len(recipient_public_keys) |->
                                 RecipientPair(recipient_public_keys[i], eph, key)]>>)
    /\ epc' = "chunking"
    /\ UNCHANGED dvars
    /\ UNCHANGED <<sender_private, recipient_public_keys, message, chunk_size,
                   chunk_start, chunks>>

\* The slice taken one byte late.
Slice_late(m, a, b) == SubSeq(m, a + 2, Min(b, Len(m)))

\* message[a:b] of Python, 0-based and clipped to the message.
Slice(m, a, b) == SubSeq(m, a + 1, Min(b, Len(m)))

\* A chunk start that steps over one byte.
Advance_skip(start, size) == start + size + 1

\* chunk_start += chunk_size (line 47).
Advance(start, size) == start + size

\* chunks_with_empty, one iteration of its loop (lines 45-47).  The model
\* follows a loop that does not advance for Len(message) + 1 iterations.
ChunkLoop ==
    /\ epc = "chunking"
    /\ chunk_start < Len(message)
    /\ Len(chunks) <= Len(message)
    /\ chunks' = Append(chunks, Slice(message, chunk_start, chunk_start + chunk_size))
    /\ chunk_start' = Advance(chunk_start, chunk_size)
    /\ UNCHANGED dvars
    /\ UNCHANGED <<sender_private, recipient_public_keys, message, chunk_size,
                   epc, ephemeral_private, encryption_key, output>>

\* chunks_with_empty, the end of its loop (lines 48-50).
ChunkEnd ==
    /\ epc = "chunking"
    /\ ~(chunk_start < Len(message))
    /\ chunks' = Append(chunks, <<>>)
    /\ epc' = "packets"
    /\ UNCHANGED dvars
    /\ UNCHANGED <<sender_private, recipient_public_keys, message, chunk_size,
                   ephemeral_private, encryption_key, chunk_start, output>>

\* Payload counters that start at 1.
PacketCounter_from1(n) == n + 1

\* packetnum + 2: the counter of packet number n (line 129).
PacketCounter(n) == n + 2

\* The keys of a list, each once, in the order of their first occurrence:
\* the keys of the dict recipient_beforenms.
Keys(s) ==
    LET first == {i \in 1..Len(s) : \A k \in 1..i - 1 : s[k] # s[i]}
    IN [n \in 1..Cardinality(first) |->
           s[CHOOSE i \in first : Cardinality({k \in first : k < i}) = n - 1]]

\* A packet with one tag box for each entry of the dict recipient_beforenms
\* instead of one for each entry of the list recipient_public_keys.
Packet_by_dict(n, chunk) ==
    LET payload_nonce == Nonce(nonce_prefix, PacketCounter(n))
        payload_secretbox == crypto_secretbox(chunk, payload_nonce, encryption_key)
    IN <<[i \in 1..Len(Keys(recipient_public_keys)) |->
             crypto_box_afternm(<<payload_secretbox.tag>>, payload_nonce,
                                recipient_beforenms[Keys(recipient_public_keys)[i]])],
         payload_secretbox.ct>>

\* The packet of chunk number n, packetnum in the code (lines 129-152).
Packet(n, chunk) ==
    LET payload_nonce == Nonce(nonce_prefix, PacketCounter(n))
        payload_secretbox == crypto_secretbox(chunk, payload_nonce, encryption_key)
        payload_tag == payload_secretbox.tag
        stripped_payload_secretbox == payload_secretbox.ct
        tag_boxes == [i \in 1..Len(recipient_public_keys) |->
                         crypto_box_afternm(<<payload_tag>>, payload_nonce,
                                            recipient_beforenms[recipient_public_keys[i]])]
    IN <<tag_boxes, stripped_payload_secretbox>>

\* The packets written so far: the header is the first frame of output.
packets_written == Len(output) - 1

\* Lines 128-153: one iteration of the loop over the chunks.
EncryptPacket ==
    /\ epc = "packets"
    /\ packets_written < Len(chunks)
    /\ output' = output \o packb(Packet(packets_written, chunks[packets_written + 1]))
    /\ UNCHANGED dvars
    /\ UNCHANGED <<sender_private, recipient_public_keys, message, chunk_size,
                   epc, ephemeral_private, encryption_key, chunk_start, chunks>>

\* Line 155: output.getvalue().
EncryptReturn ==
    /\ epc = "packets"
    /\ packets_written = Len(chunks)
    /\ epc' = "done"
    /\ UNCHANGED dvars
    /\ UNCHANGED <<sender_private, recipient_public_keys, message, chunk_size,
                   ephemeral_private, encryption_key, chunk_start, chunks, output>>

\* ------------------------------------------------------------- the wire
\* A cipher text with some bit changed: no longer the bytes it was.
Corrupt(ct) == [ct EXCEPT !.flip = 1, !.len = Max(@, 1)]
CorruptBox(box) == [box EXCEPT !.ct = Corrupt(@)]

\* 32 bytes that are no box of anyone's.
JunkBox == CorruptBox(Seal(<<>>, Nonce(nonce_prefix, 0), RawKey(0)))

\* The packet that a holder of the message's encryption key builds for
\* position n.  With a private key sk it follows encrypt's own steps.  With
\* no private key (sk = 0) it keeps the tag boxes of the sender's packet n
\* and rewrites their cipher text: XSalsa20 is a stream cipher, and the
\* authenticator inside each box is known to whoever holds the encryption
\* key, so the cipher text of any other 16 bytes under the same nonce and
\* key is the old one xor the difference; the Poly1305 authenticator of the
\* box is left as it was.
ForgedPacket(sk, n, chunk) ==
    LET payload_nonce == Nonce(nonce_prefix, n + 2)
        payload_secretbox == crypto_secretbox(chunk, payload_nonce, encryption_key)
        old == output[n + 2][1]
    IN <<[i \in 1..Len(recipient_public_keys) |->
             IF sk = 0
             THEN [tag |-> old[i].tag,
                   ct  |-> XSalsa20(<<payload_secretbox.tag>>, payload_nonce,
                                    recipient_beforenms[recipient_public_keys[i]])]
             ELSE crypto_box_afternm(<<payload_secretbox.tag>>, payload_nonce,
                                     crypto_box_beforenm(recipient_public_keys[i], sk))],
         payload_secretbox.ct>>

\* The chunk of a forged packet: an end of message, or a chunk of its own.
ForgedChunk(v) == IF v = 0 THEN <<>> ELSE <<9>>

NSlots == Len(recipient_public_keys)
NPackets == Len(output) - 1

\* The changes made to a cipher text between encrypt and decrypt.  Packets
\* are numbered from 0, slots and tag boxes from 1.
Tampers ==
    {Untouched}
    \cup {[kind |-> k, i |-> 0, j |-> 0] :
            k \in {"format_name", "major_version", "minor_version", "mode",
                   "ephemeral_public", "trailing"}}
    \cup {[kind |-> k, i |-> i, j |-> 0] :
            k \in {"slot_id", "slot_box"}, i \in 1..NSlots}
    \cup {[kind |-> "tag_box", i |-> i, j |-> j] : i \in 1..NSlots, j \in 0..NPackets - 1}
    \cup {[kind |-> k, i |-> 0, j |-> j] :
            k \in {"stripped", "longer", "shorter"}, j \in 0..NPackets - 1}
    \cup {[kind |-> "truncate", i |-> 0, j |-> j] : j \in 0..NPackets - 1}
    \cup {[kind |-> "swap", i |-> i, j |-> j] : i \in 0..NPackets - 1, j \in 0..NPackets - 1}
    \cup {[kind |-> "forge", i |-> 10 * v + sk, j |-> j] :
            v \in {0, 1}, sk \in PrivKeys \cup {0}, j \in 0..NPackets - 1}

Possible(t) ==
    /\ t.kind = "swap" => t.i < t.j
    /\ t.kind = "shorter" => NSlots > 0
    /\ t.kind = "forge" =>
          ForgedPacket(t.i % 10, t.j, ForgedChunk(t.i \div 10)) # output[t.j + 2]

TamperedHeader(t, h) ==
    CASE t.kind = "format_name" -> [h EXCEPT ![1] = "SaltSig"]
      [] t.kind = "major_version" -> [h EXCEPT ![2] = <<2, 0>>]
      [] t.kind = "minor_version" -> [h EXCEPT ![2] = <<1, 1>>]
      [] t.kind = "mode" -> [h EXCEPT ![3] = 1]
      [] t.kind = "ephemeral_public" -> [h EXCEPT ![4] = crypto_scalarmult_base(0)]
      [] t.kind = "slot_id" -> [h EXCEPT ![5][t.i][1] = "id"]
      [] t.kind = "slot_box" -> [h EXCEPT ![5][t.i][2] = CorruptBox(@)]
      [] OTHER -> h

\* Packet number j (from 0) of the tampered stream of packets ps.
TamperedPacket(t, ps, j) ==
    CASE t.kind = "tag_box" /\ t.j = j -> [ps[j + 1] EXCEPT ![1][t.i] = CorruptBox(@)]
      [] t.kind = "stripped" /\ t.j = j -> [ps[j + 1] EXCEPT ![2] = Corrupt(@)]
      [] t.kind = "longer" /\ t.j = j -> [ps[j + 1] EXCEPT ![1] = Append(@, JunkBox)]
      [] t.kind = "shorter" /\ t.j = j -> [ps[j + 1] EXCEPT ![1] = SubSeq(@, 1, Len(@) - 1)]
      [] t.kind = "swap" /\ t.i = j -> ps[t.j + 1]
      [] t.kind = "swap" /\ t.j = j -> ps[t.i + 1]
      [] t.kind = "forge" /\ t.j = j -> ForgedPacket(t.i % 10, j, ForgedChunk(t.i \div 10))
      [] OTHER -> ps[j + 1]

Tampered(t, out) ==
    LET ps == SubSeq(out, 2, Len(out))
        n  == IF t.kind = "truncate" THEN t.j ELSE Len(ps)
    IN <<TamperedHeader(t, out[1])>>
       \o [j \in 1..n |-> TamperedPacket(t, ps, j - 1)]
       \o (IF t.kind = "trailing" THEN <<<<0>>>> ELSE <<>>)

\* decrypt is called on encrypt's output, changed or not, with some
\* recipient's private key (line 158).
Deliver ==
    /\ epc = "done"
    /\ dpc = "idle"
    /\ \E t \in Tampers, sk \in PrivKeys :
        /\ Possible(t)
        /\ tamper' = t
        /\ input' = Tampered(t, output)
        /\ recipient_private' = sk
    /\ dpc' = "header"
    /\ UNCHANGED evars
    /\ UNCHANGED <<pos, recipient_index, keys, packetnum, plaintext, error>>

\* ------------------------------------------------------------- decrypt
\* decrypt raises: no plaintext is returned.
Raise(kind) ==
    /\ dpc' = "failed"
    /\ error' = kind

\* The stream has no frame left.
AtEnd == pos >= Len(input)

\* A reader that takes the end of the stream for the end of the message.
UnpackAtEnd_returns == dpc' = "done" /\ UNCHANGED error

\* umsgpack.unpack(stream) raises InsufficientDataException at the end of
\* the stream (lines 161 and 209).
UnpackAtEnd == Raise("InsufficientData")
Frame == input[pos + 1]

header == input[1]
d_ephemeral_public == header[4]
recipient_pairs == header[5]
d_nonce_prefix == nonce_prefix_of(d_ephemeral_public)
ephemeral_beforenm == crypto_box_beforenm(d_ephemeral_public, recipient_private)

\* Lines 159-179: the header is read and taken apart; its format name,
\* version and mode are bound to names and not looked at again.
HeaderShapeOK(h) == Len(h) = 5 /\ Len(h[2]) = 2

DecryptHeader ==
    /\ dpc = "header"
    /\ IF AtEnd THEN UnpackAtEnd /\ UNCHANGED pos
       ELSE IF ~HeaderShapeOK(Frame) THEN Raise("ValueError") /\ pos' = pos + 1
       ELSE dpc' = "resolve" /\ pos' = pos + 1 /\ UNCHANGED error
    /\ UNCHANGED evars
    /\ UNCHANGED <<tamper, input, recipient_private, recipient_index, keys,
                   packetnum, plaintext>>

\* A loop that takes every recipient box as opened.
SlotOpens_unchecked(i) == TRUE

\* Lines 182-191: the recipient box of pair number i (from 1) opens.
SlotOpens(i) ==
    OpenOK(recipient_pairs[i][2], Nonce(d_nonce_prefix, 0), ephemeral_beforenm)

\* A loop that goes on to the next slot after one has opened.
SlotFound_no_break == recipient_index' = recipient_index + 1 /\ UNCHANGED dpc

\* break (line 189): the loop ends at the slot that opened, and its index
\* stays in recipient_index.
SlotFound == dpc' = "packets" /\ UNCHANGED recipient_index

\* Lines 181-202, one iteration of the loop over the recipient pairs:
\* recipient_index is the loop's index, the pairs before it have failed to
\* open.  The pair that opens gives the keys and ends the loop; one that
\* raises CryptoError is passed over; the loop's else clause raises when
\* no pair is left.
ResolveRecipient ==
    /\ dpc = "resolve"
    /\ IF recipient_index >= Len(recipient_pairs)
       THEN Raise("NoMatchingRecipient") /\ UNCHANGED <<recipient_index, keys>>
       ELSE IF SlotOpens(recipient_index + 1)
       THEN /\ keys' = unpackb(Open(recipient_pairs[recipient_index + 1][2],
                                    Nonce(d_nonce_prefix, 0), ephemeral_beforenm))
            /\ SlotFound
            /\ UNCHANGED error
       ELSE /\ recipient_index' = recipient_index + 1
            /\ UNCHANGED <<keys, dpc, error>>
    /\ UNCHANGED evars
    /\ UNCHANGED <<tamper, input, recipient_private, pos, packetnum, plaintext>>

d_sender_public == keys[1]
d_encryption_key == keys[2]
sender_beforenm == crypto_box_beforenm(d_sender_public, recipient_private)

\* A nonce taken from the packet being read instead of counted.
payload_nonce_of_packet == Frame[1][recipient_index + 1].tag.nonce

\* Line 208: the nonce of the packet about to be read.
payload_nonce == Nonce(d_nonce_prefix, packetnum)

\* A tag box deciphered without its authenticator being verified.
TagBoxOpens_unverified(packet) == TRUE

\* Lines 213-220: the tag box at the recipient's index opens.
TagBoxOpens(packet) ==
    OpenOK(packet[1][recipient_index + 1], payload_nonce, sender_beforenm)

\* Lines 222-223: the authenticator of the tag box in front of the body.
PayloadSecretbox(packet) ==
    [tag |-> Open(packet[1][recipient_index + 1], payload_nonce, sender_beforenm)[1],
     ct  |-> packet[2]]

\* Lines 224-227: the secretbox opens.
SecretboxOpens(packet) ==
    OpenOK(PayloadSecretbox(packet), payload_nonce, RawKey(d_encryption_key))

Chunk(packet) == Open(PayloadSecretbox(packet), payload_nonce, RawKey(d_encryption_key))

\* A loop that passes over a packet that fails to open and reads the next.
PacketFails_skipped == UNCHANGED <<dpc, error, packetnum, plaintext>>

\* The CryptoError of lines 217-227 is not caught: decrypt ends.
PacketFails == Raise("CryptoError") /\ UNCHANGED <<packetnum, plaintext>>

\* Lines 207-238: one iteration of the loop over the packets; the empty
\* chunk ends the loop and decrypt returns what it has written.
DecryptPacket ==
    /\ dpc = "packets"
    /\ IF AtEnd THEN UnpackAtEnd /\ UNCHANGED <<pos, packetnum, plaintext>>
       ELSE /\ pos' = pos + 1
            /\ IF Len(Frame) # 2
               THEN Raise("ValueError") /\ UNCHANGED <<packetnum, plaintext>>
               ELSE IF recipient_index >= Len(Frame[1])
               THEN Raise("IndexError") /\ UNCHANGED <<packetnum, plaintext>>
               ELSE IF ~TagBoxOpens(Frame) \/ ~SecretboxOpens(Frame)
               THEN PacketFails
               ELSE /\ plaintext' = plaintext \o Chunk(Frame)
                    /\ IF Chunk(Frame) = <<>>
                       THEN dpc' = "done" /\ UNCHANGED packetnum
                       ELSE packetnum' = packetnum + 1 /\ UNCHANGED dpc
                    /\ UNCHANGED error
    /\ UNCHANGED evars
    /\ UNCHANGED <<tamper, input, recipient_private, recipient_index, keys>>

Next ==
    \/ EncryptHeader
    \/ ChunkLoop
    \/ ChunkEnd
    \/ EncryptPacket
    \/ EncryptReturn
    \/ Deliver
    \/ DecryptHeader
    \/ ResolveRecipient
    \/ DecryptPacket

Spec == Init /\ [][Next]_vars

\* encrypt alone, on the plaintext "hello world" and its prefixes, with
\* every chunk size from 1 to MaxChunkSize and at most one recipient.
HelloWorld == <<"h", "e", "l", "l", "o", " ", "w", "o", "r", "l", "d">>

InitEncrypt ==
    /\ sender_private \in SenderKeys
    /\ recipient_public_keys \in SeqsUpTo(PubKeys, 1)
    /\ message \in {SubSeq(HelloWorld, 1, n) : n \in 0..Len(HelloWorld)}
    /\ chunk_size \in 1..MaxChunkSize
    /\ epc = "start"
    /\ ephemeral_private = 0
    /\ encryption_key = 0
    /\ chunk_start = 0
    /\ chunks = <<>>
    /\ output = <<>>
    /\ tamper = Untouched
    /\ input = <<>>
    /\ recipient_private = 0
    /\ dpc = "idle"
    /\ pos = 0
    /\ recipient_index = 0
    /\ keys = <<>>
    /\ packetnum = 2
    /\ plaintext = <<>>
    /\ error = "none"

NextEncrypt ==
    \/ EncryptHeader
    \/ ChunkLoop
    \/ ChunkEnd
    \/ EncryptPacket
    \/ EncryptReturn

SpecEncrypt == InitEncrypt /\ [][NextEncrypt]_vars

\* decrypt on the header of a message followed by packets of that message
\* only: any sequence of at most as many of them as the message has, some
\* dropped, repeated or out of order.
RECURSIVE Code(_)
Code(seq) == IF Len(seq) = 0 THEN 0 ELSE (Head(seq) + 1) + 10 * Code(Tail(seq))

Rearranged(seq, out) == <<out[1]>> \o [k \in 1..Len(seq) |-> out[seq[k] + 2]]

DeliverRearranged ==
    /\ epc = "done"
    /\ dpc = "idle"
    /\ \E seq \in SeqsUpTo(0..NPackets - 1, NPackets), sk \in PrivKeys :
        /\ tamper' = [kind |-> "rearrange", i |-> Code(seq), j |-> Len(seq)]
        /\ input' = Rearranged(seq, output)
        /\ recipient_private' = sk
    /\ dpc' = "header"
    /\ UNCHANGED evars
    /\ UNCHANGED <<pos, recipient_index, keys, packetnum, plaintext, error>>

NextRearranged ==
    \/ EncryptHeader
    \/ ChunkLoop
    \/ ChunkEnd
    \/ EncryptPacket
    \/ EncryptReturn
    \/ DeliverRearranged
    \/ DecryptHeader
    \/ ResolveRecipient
    \/ DecryptPacket

SpecRearranged == Init /\ [][NextRearranged]_vars

\* ------------------------------------------------------------- properties
\* The private key given to decrypt belongs to a recipient of the message.
Listed == crypto_scalarmult_base(recipient_private) \in Range(recipient_public_keys)
Called == dpc # "idle"
Ended == dpc \in {"done", "failed"}

\* C1. Round trip: decrypt of encrypt's unchanged output with the private
\* key of any listed recipient returns exactly the plaintext, for every
\* sender, non-empty recipient list, plaintext and chunk_size >= 1.
C1_RoundTrip ==
    (Ended /\ tamper = Untouched /\ chunk_size >= 1
        /\ recipient_public_keys # <<>> /\ Listed)
    => (dpc = "done" /\ plaintext = message)

C1_Witness ==
    /\ dpc = "done" /\ tamper = Untouched
    /\ chunk_size = 1 /\ Len(message) >= 2 /\ plaintext = message
    /\ Len(recipient_public_keys) = 2
    /\ recipient_public_keys[1] # crypto_scalarmult_base(recipient_private)
    /\ recipient_public_keys[2] = crypto_scalarmult_base(recipient_private)

\* C2. Recipient isolation: decrypt of encrypt's unchanged output with a
\* private key whose public key is not listed raises "Failed to find
\* matching recipient"; it reads the header only, never a payload packet,
\* and returns nothing.
C2_RecipientIsolation ==
    (Called /\ tamper = Untouched /\ ~Listed)
    => /\ dpc \notin {"packets", "done"}
       /\ pos <= 1
       /\ plaintext = <<>>
       /\ Ended => (dpc = "failed" /\ error = "NoMatchingRecipient")

C2_Witness ==
    /\ dpc = "failed" /\ error = "NoMatchingRecipient" /\ pos = 1
    /\ tamper = Untouched /\ ~Listed
    /\ Len(recipient_public_keys) = 2 /\ Len(message) >= 1 /\ chunk_size >= 1

\* The payload packets decrypt has accepted: those whose chunk it wrote.
Accepted == (packetnum - 2) + (IF dpc = "done" THEN 1 ELSE 0)

\* C3. Tamper detection: a change to the header (format name, version,
\* mode, ephemeral public key), to any recipient slot (its identifier or
\* its box), to any tag box or to any stripped cipher text makes decrypt
\* fail; decrypt never returns on the changed cipher text.
C3_TamperDetection ==
    (chunk_size >= 1 /\
     tamper.kind \in {"format_name", "major_version", "minor_version", "mode",
                      "ephemeral_public", "slot_id", "slot_box", "tag_box", "stripped"})
    => dpc # "done"

\* C4. Double authentication: every payload packet j that decrypt accepts
\* has, at the recipient's slot index, a tag box that opens under
\* Nonce(j + 2) with the shared secret of the sender and the recipient, and
\* the authenticator in it opens the body under Nonce(j + 2) with the
\* encryption key; a packet built with the encryption key but without the
\* sender's private key is never accepted.
C4_DoubleAuthentication ==
    /\ \A q \in 0..Accepted - 1 :
          LET n   == Nonce(nonce_prefix_of(input[1][4]), q + 2)
              box == input[q + 2][1][recipient_index + 1]
              k   == crypto_box_beforenm(keys[1], recipient_private)
          IN /\ OpenOK(box, n, k)
             /\ OpenOK([tag |-> Open(box, n, k)[1], ct |-> input[q + 2][2]],
                       n, RawKey(keys[2]))
    /\ (tamper.kind = "forge" /\ tamper.i % 10 # sender_private)
          => Accepted <= tamper.j

C4_Witness ==
    /\ tamper.kind = "forge" /\ tamper.j >= 1
    /\ tamper.i % 10 # sender_private /\ tamper.i % 10 # recipient_private
    /\ crypto_scalarmult_base(tamper.i % 10) \in Range(recipient_public_keys)
    /\ Listed
    /\ dpc = "failed" /\ error = "CryptoError" /\ Accepted = tamper.j

\* C5. Trailing data: with bytes left in the input after the packet of the
\* empty chunk, decrypt fails and returns no plaintext.
C5_TrailingData == (chunk_size >= 1 /\ tamper.kind = "trailing") => dpc # "done"

\* C6. Mode and version rejection: decrypt rejects a header whose format
\* name is not "SaltBox", whose version is not [1, 0] or whose mode is not
\* 0 before it looks at a recipient slot or a payload packet.
C6_ModeVersionRejection ==
    (chunk_size >= 1 /\
     tamper.kind \in {"format_name", "major_version", "minor_version", "mode"})
    => dpc \notin {"resolve", "packets", "done"}

\* C7. Sentinel necessity: when the stream of packets ends before a packet
\* with an empty chunk, decrypt fails at the end of the stream and returns
\* no plaintext, however many packets it has verified before.
C7_SentinelNecessity ==
    tamper.kind = "truncate"
    => /\ dpc # "done"
       /\ (Ended /\ Listed)
            => /\ error = "InsufficientData"
               /\ Accepted = tamper.j
               /\ pos = Len(input)

C7_Witness ==
    /\ tamper.kind = "truncate" /\ tamper.j = 2 /\ Listed
    /\ dpc = "failed" /\ error = "InsufficientData"
    /\ Accepted = 2 /\ plaintext = message

\* C8. Order sensitivity: with the packets at two different positions of
\* a cipher text swapped, decrypt fails with CryptoError at the first of
\* the two positions and returns nothing.
C8_OrderSensitivity ==
    tamper.kind = "swap"
    => /\ dpc # "done"
       /\ (Ended /\ Listed) => (error = "CryptoError" /\ Accepted = tamper.i)

C8_Witness ==
    /\ tamper.kind = "swap" /\ tamper.i = 1 /\ tamper.j = 2 /\ Listed
    /\ dpc = "failed" /\ error = "CryptoError" /\ Accepted = 1

\* C9. Malformed packet: decrypt rejects every payload packet whose list of
\* tag boxes is longer or shorter than the header's list of recipient
\* slots.
C9_MalformedPacket ==
    (chunk_size >= 1 /\ tamper.kind \in {"longer", "shorter"}) => Accepted <= tamper.j

\* C10. Invalid chunk size: encrypt called with chunk_size = 0 and a
\* non-empty plaintext ends with an error: it never goes round the
\* chunker's loop, which a chunk size of 0 does not advance.
C10_InvalidChunkSize ==
    (chunk_size = 0 /\ message # <<>>) => chunks = <<>>

Ceil(a, b) == (a + b - 1) \div b

RECURSIVE Concat(_)
Concat(ss) == IF Len(ss) = 0 THEN <<>> ELSE Head(ss) \o Concat(Tail(ss))

\* C11. Chunking: for chunk_size >= 1 the chunker yields exactly
\* ceil(len(plaintext) / chunk_size) + 1 chunks, and encrypt as many payload
\* packets; the chunks in order make up the plaintext; every chunk but the
\* last is non-empty and at most chunk_size long, all but the last two are
\* exactly chunk_size long, and the last chunk is the only empty one.
C11_Chunking ==
    (chunk_size >= 1 /\ epc \in {"packets", "done"})
    => /\ Len(chunks) = Ceil(Len(message), chunk_size) + 1
       /\ Concat(chunks) = message
       /\ \A i \in 1..Len(chunks) - 1 :
             Len(chunks[i]) >= 1 /\ Len(chunks[i]) <= chunk_size
       /\ \A i \in 1..Len(chunks) - 2 : Len(chunks[i]) = chunk_size
       /\ Len(chunks[Len(chunks)]) = 0
       /\ epc = "done" => NPackets = Len(chunks)

\* "hello world" with chunk_size 4: "hell", "o wo", "rld", "".
C11_Witness ==
    /\ epc = "done" /\ message = HelloWorld /\ chunk_size = 4
    /\ chunks = <<SubSeq(HelloWorld, 1, 4), SubSeq(HelloWorld, 5, 8),
                  SubSeq(HelloWorld, 9, 11), <<>>>>
    /\ NPackets = 4

\* The nonces that the boxes of a header and of a packet were sealed
\* under: of each recipient box; of each tag box, of the secretbox whose
\* authenticator it holds, and of the stripped cipher text if it has bytes.
NoncesOfHeader(h) == {h[5][i][2].tag.nonce : i \in 1..Len(h[5])}
NoncesOfPacket(p) ==
    {p[1][i].tag.nonce : i \in 1..Len(p[1])}
    \cup {p[1][i].ct.of[1][1].nonce : i \in 1..Len(p[1])}
    \cup (IF p[2].len > 0 THEN {p[2].of[2]} ELSE {})

\* C12. Nonce counters: in what encrypt writes, every recipient box of the
\* header is sealed under counter 0 and the secretbox and every tag box of
\* payload packet j under counter j + 2, all with the prefix of the
\* message; no box is sealed under counter 1; the nonces of the header and
\* of the packets are pairwise distinct; and decrypt opens the j-th packet
\* it reads under counter j + 2.
C12_NonceCounters ==
    /\ Len(output) >= 1 =>
          NoncesOfHeader(output[1]) \subseteq {<<nonce_prefix, <<"u64be", 0>>>>}
    /\ \A j \in 0..NPackets - 1 :
          NoncesOfPacket(output[j + 2]) \subseteq {<<nonce_prefix, <<"u64be", j + 2>>>>}
    /\ \A f \in 2..Len(output) : \A n \in NoncesOfPacket(output[f]) : n[2][2] # 1
    /\ \A f \in 2..Len(output) :
          /\ NoncesOfPacket(output[f]) \cap NoncesOfHeader(output[1]) = {}
          /\ \A g \in 2..Len(output) :
                f # g => NoncesOfPacket(output[f]) \cap NoncesOfPacket(output[g]) = {}
    /\ dpc = "packets" =>
          payload_nonce = <<<<"sha512", input[1][4]>>, <<"u64be", (pos - 1) + 2>>>>

C12_Witness ==
    /\ NSlots = 2 /\ NPackets = 3 /\ tamper = Untouched /\ Listed
    /\ dpc = "packets" /\ pos = 3
    /\ payload_nonce \in NoncesOfPacket(output[4])
    /\ Cardinality(UNION {NoncesOfPacket(output[f]) : f \in 2..4}
                   \cup NoncesOfHeader(output[1])) = 4

\* Slot number i (from 1) of the header that decrypt was given opens under
\* Nonce(0) with the shared secret of the header's ephemeral public key and
\* the recipient's private key.
Opens(i) ==
    OpenOK(input[1][5][i][2],
           <<<<"sha512", input[1][4]>>, <<"u64be", 0>>>>,
           crypto_box_beforenm(input[1][4], recipient_private))

\* decrypt has found its slot.
Resolved == keys # <<>>

\* C13. First-match recipient resolution: decrypt tries the slots in
\* header order; every slot before the one it is at has failed to open, so
\* no slot after the first that opens is ever tried; the first slot that
\* opens gives the index used for the tag box of every packet; and
\* "Failed to find matching recipient" is raised only when every slot has
\* failed.
C13_FirstMatch ==
    Called =>
      /\ \A k \in 1..recipient_index : ~Opens(k)
      /\ Resolved => (recipient_index < Len(input[1][5]) /\ Opens(recipient_index + 1))
      /\ dpc \in {"packets", "done"} => Resolved
      /\ \A q \in 0..Accepted - 1 :
            OpenOK(input[q + 2][1][recipient_index + 1],
                   <<<<"sha512", input[1][4]>>, <<"u64be", q + 2>>>>,
                   crypto_box_beforenm(keys[1], recipient_private))
      /\ error = "NoMatchingRecipient" =>
            (~Resolved /\ \A k \in 1..Len(input[1][5]) : ~Opens(k))
      /\ (dpc = "failed" /\ ~Resolved /\ pos = 1) => error = "NoMatchingRecipient"

\* Two slots sealed to the recipient: the first is taken, the second never
\* tried.
C13_Witness ==
    /\ dpc = "done" /\ tamper = Untouched /\ Len(message) >= 1
    /\ Len(input[1][5]) = 2 /\ Opens(1) /\ Opens(2)
    /\ recipient_index = 0

\* The public key that a box under the shared secret k is sealed to by the
\* holder of the private key sk.
SealedTo(k, sk) == crypto_scalarmult_base(IF k[2] = sk THEN k[3] ELSE k[2])

\* C14. Slot and tag-box alignment: in what encrypt writes, the header has
\* one recipient slot for each entry of recipient_public_keys and every
\* payload packet one tag box for each entry, in the order of the list;
\* slot i is sealed to entry i by the ephemeral key and tag box i of every
\* packet is sealed to entry i by the sender's key, also when an entry
\* occurs more than once.
C14_SlotTagBoxAlignment ==
    /\ Len(output) >= 1 =>
          /\ Len(output[1][5]) = Len(recipient_public_keys)
          /\ \A i \in 1..Len(output[1][5]) :
                /\ ephemeral_private \in {output[1][5][i][2].tag.key[2],
                                           output[1][5][i][2].tag.key[3]}
                /\ SealedTo(output[1][5][i][2].tag.key, ephemeral_private)
                      = recipient_public_keys[i]
    /\ \A f \in 2..Len(output) :
          /\ Len(output[f][1]) = Len(recipient_public_keys)
          /\ \A i \in 1..Len(output[f][1]) :
                /\ sender_private \in {output[f][1][i].tag.key[2],
                                        output[f][1][i].tag.key[3]}
                /\ SealedTo(output[f][1][i].tag.key, sender_private)
                      = recipient_public_keys[i]
                /\ SealedTo(output[f][1][i].tag.key, sender_private)
                      = SealedTo(output[1][5][i][2].tag.key, ephemeral_private)

C14_Witness ==
    /\ epc = "done" /\ NPackets = 3
    /\ Len(recipient_public_keys) = 2
    /\ recipient_public_keys[1] = recipient_public_keys[2]
    /\ Len(output[1][5]) = 2 /\ Len(output[4][1]) = 2

\* The frame f is a packet whose tag box at the recipient's index and whose
\* secretbox both open under counter c.
PacketOK(f, c) ==
    LET n == <<<<"sha512", input[1][4]>>, <<"u64be", c>>>>
        k == crypto_box_beforenm(keys[1], recipient_private)
    IN /\ Len(f) = 2
       /\ recipient_index < Len(f[1])
       /\ OpenOK(f[1][recipient_index + 1], n, k)
       /\ OpenOK([tag |-> Open(f[1][recipient_index + 1], n, k)[1], ct |-> f[2]],
                 n, RawKey(keys[2]))

\* The steps of the decoder: header parsed, recipient resolved (one slot
\* at a time), packets read (one at a time), done; or failed from any of
\* them.  No step leaves "done" or "failed".
DecoderSteps ==
    {<<"idle", "idle">>, <<"idle", "header">>,
     <<"header", "resolve">>, <<"header", "failed">>,
     <<"resolve", "resolve">>, <<"resolve", "packets">>, <<"resolve", "failed">>,
     <<"packets", "packets">>, <<"packets", "done">>, <<"packets", "failed">>}

\* C15. Failure is terminal in the decoder: decrypt moves from the header
\* to the recipient slots to the packets to its return; the first packet
\* that is missing, malformed or fails to open, when all before it were
\* accepted, ends decrypt in the failed state with nothing more written;
\* every packet read so far has been accepted as long as decrypt goes on,
\* so none is skipped; and from the failed state there is no further step:
\* no later packet is read and nothing is returned.
C15_FailureTerminal ==
    [][/\ <<dpc, dpc'>> \in DecoderSteps
       /\ (dpc = "packets" /\ (pos >= Len(input) \/ ~PacketOK(input[pos + 1], pos + 1)))
            => (dpc' = "failed" /\ plaintext' = plaintext /\ packetnum' = packetnum)
       /\ dpc' \in {"packets", "done"} => Accepted' = pos' - 1
       /\ dpc' = "failed" => (error' # "none" /\ pos' - 1 <= Accepted' + 1)
       /\ dpc' # "failed" => error' = "none"
      ]_vars

\* The second of three packets is corrupt: the first was written to the
\* buffer, the third is never read, and decrypt raises.
C15_Witness ==
    /\ tamper.kind = "stripped" /\ tamper.j = 1 /\ Listed
    /\ dpc = "failed" /\ error = "CryptoError"
    /\ Accepted = 1 /\ pos = 3 /\ Len(input) = 4

\* C16. No truncated or rearranged plaintext: on the header of a message
\* followed by any sequence of that message's own packets, decrypt with a
\* listed recipient's key either fails or returns the whole plaintext; when
\* it returns, the packets it read are the message's packets in order.
C16_NoRearrangedPlaintext ==
    (tamper.kind = "rearrange" /\ Listed /\ Ended)
    => \/ dpc = "failed"
       \/ /\ plaintext = message
          /\ pos = Len(output)
          /\ \A f \in 1..pos : input[f] = output[f]

\* The first packet followed by the last, the one between them dropped:
\* the first chunk is verified, the end of message is not, nothing returned.
C16_Witness ==
    /\ tamper.kind = "rearrange" /\ tamper.j = 2 /\ Listed
    /\ NPackets = 3 /\ input[2] = output[2] /\ input[3] = output[4]
    /\ dpc = "failed" /\ error = "CryptoError"
    /\ Accepted = 1 /\ plaintext = SubSeq(message, 1, 1)
====
